---------------------------- MODULE Spec2Model ----------------------------
(***************************************************************************)
(* Process-and-overlay lifecycle supervisor of src-tauri/src/lib.rs:       *)
(*   - the tagger sidecar: spawn_tagger_sc / start_tagger /                *)
(*     check_tagger_binary, the setup auto-start and the RunEvent::Exit    *)
(*     handler of run(), all sharing TaggerState (a Mutex around an        *)
(*     Option<CommandChild>);                                              *)
(*   - the embedded browser: open/close/navigate/resize/show/hide/         *)
(*     is_browser_open, sharing the host window's webview table and the    *)
(*     EMBEDDED_WEBVIEWS registry.                                         *)
(* Commands are async: each invocation is a task of the runtime, and every *)
(* access to shared state (a lock, the slot, the webview table, the        *)
(* registry, the OS) is one step of that task.                             *)
(***************************************************************************)
EXTENDS Integers, Sequences, FiniteSets, TLC

\* Number of command invocations (tasks) that can be in flight at once.
MaxThreads == 2

\* The main thread: it runs the setup hook and, later, the run-event callback.
Main == 0
Threads == 1..MaxThreads
Callers == {Main} \cup Threads

\* Option<T>: None, or Some(x).
None == << >>
Some(x) == << x >>
IsSome(o) == o # None
Unwrap(o) == o[1]

VARIABLES
    pc,           \* pc[c]: where caller c is in the function it runs
    res,          \* res[c]: the Result the function of c returns ("none": not yet)
    tagger_state, \* the Option<CommandChild> inside TaggerState
    tagger_lock,  \* the callers holding TaggerState's Mutex ({}: unlocked)
    procs,        \* worker processes spawned so far; the pid is the index
    fs,           \* what the OS answers about the two probe locations
    platform,     \* cfg(target_os): "windows" or "other"
    path,         \* path[c]: local `path` of spawn_tagger_sc
    child,        \* child[c]: local `child` of spawn_tagger_sc (a pid)
    child_process,\* the exit handler's `child_process` (what take() returned)
    kill_result,  \* the Result the exit handler discards with `let _ =`
    taskkill,     \* the taskkill helper process: none, running, killed, failed
    main_window,  \* whether the window labelled "main" exists (get_window)
    webviews_tbl, \* the host's webview table (what get_webview looks up)
    store,        \* EMBEDDED_WEBVIEWS.webviews, a HashMap<String, bool>
    store_lock,   \* the callers holding EMBEDDED_WEBVIEWS's Mutex
    op,           \* op[c]: the overlay command c runs ("none": none)
    webview,      \* webview[c]: the Option<Webview> get_webview returned to c (an id)
    url,          \* url[c]: the `url` argument of c, once c has read it
    close_result  \* close_result[c]: what the close() inside open() returned

taggerVars == << tagger_state, tagger_lock, procs, fs, platform, path, child,
                 child_process, kill_result, taskkill >>
overlayVars == << main_window, webviews_tbl, store, store_lock, op, webview, url, close_result >>
vars == << pc, res, taggerVars, overlayVars >>

-----------------------------------------------------------------------------
(* The filesystem as the probes see it.                                    *)

\* One probe location: the directory cannot be determined (current_exe() or
\* current_dir() fails), or it can and the binary is absent or present there.
Probe == {"err", "absent", "present"}
FsStates == [exe : Probe, cwd : Probe]

\* check_tagger_binary: unwrap_or_default() turns a failed current_exe() or
\* current_dir() into the empty path, so the probe becomes the relative path
\* "tagger-server", which the OS resolves against the working directory.
RelativeExists(f) == f.cwd = "present"
ExePathExists(f) == IF f.exe = "err" THEN RelativeExists(f) ELSE f.exe = "present"
CwdPathExists(f) == IF f.cwd = "err" THEN RelativeExists(f) ELSE f.cwd = "present"
check_tagger_binary(f) == IF ExePathExists(f) THEN TRUE ELSE CwdPathExists(f)

\* (mutant) the working-directory fallback taken without cwd.exists().
ResolvePathUnchecked(f) ==
    IF f.exe = "err" THEN [ok |-> FALSE, val |-> "OsError"]
    ELSE IF f.exe = "present" THEN [ok |-> TRUE, val |-> "adjacent"]
    ELSE IF f.cwd = "err" THEN [ok |-> FALSE, val |-> "OsError"]
    ELSE [ok |-> TRUE, val |-> "cwd"]

\* (mutant) the working directory probed before the executable's directory.
ResolvePathCwdFirst(f) ==
    IF f.exe = "err" THEN [ok |-> FALSE, val |-> "OsError"]
    ELSE IF f.cwd = "present" THEN [ok |-> TRUE, val |-> "cwd"]
    ELSE IF f.exe = "present" THEN [ok |-> TRUE, val |-> "adjacent"]
    ELSE IF f.cwd = "err" THEN [ok |-> FALSE, val |-> "OsError"]
    ELSE [ok |-> FALSE, val |-> "NotFound"]

\* Path resolution of spawn_tagger_sc: the `?` on current_exe()/current_dir()
\* returns the OS error; otherwise the adjacent path if it exists, else the
\* working-directory path if it exists, else "tagger-server not found".
ResolvePath(f) ==
    IF f.exe = "err" THEN [ok |-> FALSE, val |-> "OsError"]
    ELSE IF f.exe = "present" THEN [ok |-> TRUE, val |-> "adjacent"]
    ELSE IF f.cwd = "err" THEN [ok |-> FALSE, val |-> "OsError"]
    ELSE IF f.cwd = "present" THEN [ok |-> TRUE, val |-> "cwd"]
    ELSE [ok |-> FALSE, val |-> "NotFound"]

-----------------------------------------------------------------------------
(* Worker processes.                                                       *)

Pids == DOMAIN procs
Live == {p \in Pids : procs[p].alive}
Killed(ps, p) == [ps EXCEPT ![p].alive = FALSE]

\* (mutant) a lock that excludes nobody.
CanLockAlways(lock) == TRUE

\* Mutex::lock blocks until the mutex is free.
CanLock(lock) == lock = {}


-----------------------------------------------------------------------------
(* spawn_tagger_sc, run by the setup hook (Main) and by start_tagger.      *)

\* let mut child_guard = state.0.lock()
SpawnLock(c) ==
    /\ pc[c] = "s_lock"
    /\ CanLock(tagger_lock)
    /\ tagger_lock' = tagger_lock \cup {c}
    /\ pc' = [pc EXCEPT ![c] = "s_check"]
    /\ UNCHANGED << res, tagger_state, procs, fs, platform, path, child,
                    child_process, kill_result, taskkill, overlayVars >>

\* (mutant) a start that does not look at the slot before it resolves and spawns.
SpawnCheckRespawns(c) ==
    /\ pc[c] = "s_check"
    /\ pc' = [pc EXCEPT ![c] = "s_resolve"]
    /\ UNCHANGED << res, tagger_lock, tagger_state, procs, fs, platform, path, child,
                    child_process, kill_result, taskkill, overlayVars >>

\* if child_guard.is_some() { return Ok(()) }   (the return drops the guard)
SpawnCheck(c) ==
    /\ pc[c] = "s_check"
    /\ IF IsSome(tagger_state)
       THEN /\ res' = [res EXCEPT ![c] = "Ok"]
            /\ tagger_lock' = tagger_lock \ {c}
            /\ pc' = [pc EXCEPT ![c] = "s_ret"]
       ELSE /\ pc' = [pc EXCEPT ![c] = "s_resolve"]
            /\ UNCHANGED << res, tagger_lock >>
    /\ UNCHANGED << tagger_state, procs, fs, platform, path, child,
                    child_process, kill_result, taskkill, overlayVars >>

\* (mutant) an error return that leaves the slot's mutex locked.
SpawnResolveKeepsGuard(c) ==
    /\ pc[c] = "s_resolve"
    /\ LET r == ResolvePath(fs) IN
       IF r.ok
       THEN /\ path' = [path EXCEPT ![c] = r.val]
            /\ pc' = [pc EXCEPT ![c] = "s_spawn"]
            /\ UNCHANGED res
       ELSE /\ res' = [res EXCEPT ![c] = r.val]
            /\ pc' = [pc EXCEPT ![c] = "s_ret"]
            /\ UNCHANGED path
    /\ UNCHANGED << tagger_state, tagger_lock, procs, fs, platform, child,
                    child_process, kill_result, taskkill, overlayVars >>

\* current_exe()?, path.exists(), current_dir()?, cwd.exists()
SpawnResolve(c) ==
    /\ pc[c] = "s_resolve"
    /\ LET r == ResolvePath(fs) IN
       IF r.ok
       THEN /\ path' = [path EXCEPT ![c] = r.val]
            /\ pc' = [pc EXCEPT ![c] = "s_spawn"]
            /\ UNCHANGED << res, tagger_lock >>
       ELSE /\ res' = [res EXCEPT ![c] = r.val]
            /\ tagger_lock' = tagger_lock \ {c}
            /\ pc' = [pc EXCEPT ![c] = "s_ret"]
            /\ UNCHANGED path
    /\ UNCHANGED << tagger_state, procs, fs, platform, child,
                    child_process, kill_result, taskkill, overlayVars >>

\* command.spawn(): the OS creates the process, or refuses.
SpawnProcess(c) ==
    /\ pc[c] = "s_spawn"
    /\ \E created \in BOOLEAN :
         IF created
         THEN /\ procs' = Append(procs, [path |-> path[c], alive |-> TRUE])
              /\ child' = [child EXCEPT ![c] = Some(Len(procs) + 1)]
              /\ pc' = [pc EXCEPT ![c] = "s_store"]
              /\ UNCHANGED << res, tagger_lock, path >>
         ELSE /\ res' = [res EXCEPT ![c] = "SpawnFailed"]
              /\ tagger_lock' = tagger_lock \ {c}
              /\ path' = [path EXCEPT ![c] = "none"]
              /\ pc' = [pc EXCEPT ![c] = "s_ret"]
              /\ UNCHANGED << procs, child >>
    /\ UNCHANGED << tagger_state, fs, platform,
                    child_process, kill_result, taskkill, overlayVars >>

\* *child_guard = Some(child); Ok(())   (the locals end with the call)
SpawnStore(c) ==
    /\ pc[c] = "s_store"
    /\ tagger_state' = child[c]
    /\ res' = [res EXCEPT ![c] = "Ok"]
    /\ tagger_lock' = tagger_lock \ {c}
    /\ path' = [path EXCEPT ![c] = "none"]
    /\ child' = [child EXCEPT ![c] = None]
    /\ pc' = [pc EXCEPT ![c] = "s_ret"]
    /\ UNCHANGED << procs, fs, platform,
                    child_process, kill_result, taskkill, overlayVars >>

spawn_tagger_sc(c) ==
    \/ SpawnLock(c)
    \/ SpawnCheck(c)
    \/ SpawnResolve(c)
    \/ SpawnProcess(c)
    \/ SpawnStore(c)

\* The event loop delivers commands once setup is over and until it exits.
EventLoopRuns == pc[Main] = "running"
\* The host process is still there: its tasks still run.
HostAlive == pc[Main] # "exited"

\* start_tagger: a UI invocation calls spawn_tagger_sc and returns its result.
StartTaggerBegin(t) ==
    /\ pc[t] = "idle"
    /\ EventLoopRuns
    /\ pc' = [pc EXCEPT ![t] = "s_lock"]
    /\ UNCHANGED << res, taggerVars, overlayVars >>

StartTaggerReturn(t) ==
    /\ pc[t] = "s_ret"
    /\ pc' = [pc EXCEPT ![t] = "idle"]
    /\ res' = [res EXCEPT ![t] = "none"]
    /\ UNCHANGED << taggerVars, overlayVars >>

start_tagger(t) ==
    /\ HostAlive
    /\ \/ StartTaggerBegin(t)
       \/ spawn_tagger_sc(t)
       \/ StartTaggerReturn(t)

\* The check_tagger_binary command: no lock, no side effect.
CheckTaggerBinaryCall(t) ==
    /\ pc[t] = "idle"
    /\ EventLoopRuns
    /\ pc' = [pc EXCEPT ![t] = "b_ret"]
    /\ res' = [res EXCEPT ![t] = IF check_tagger_binary(fs) THEN "true" ELSE "false"]
    /\ UNCHANGED << taggerVars, overlayVars >>

CheckTaggerBinaryReturn(t) ==
    /\ pc[t] = "b_ret"
    /\ pc' = [pc EXCEPT ![t] = "idle"]
    /\ res' = [res EXCEPT ![t] = "none"]
    /\ UNCHANGED << taggerVars, overlayVars >>

CheckTaggerBinary(t) ==
    /\ HostAlive
    /\ \/ CheckTaggerBinaryCall(t)
       \/ CheckTaggerBinaryReturn(t)

\* (mutant) a setup hook that propagates the error of the auto-start: the
\* application does not start.
SetupReturnAborting ==
    /\ pc[Main] = "s_ret"
    /\ pc' = [pc EXCEPT ![Main] = IF res[Main] = "Ok" THEN "running" ELSE "exited"]
    /\ res' = [res EXCEPT ![Main] = "none"]
    /\ UNCHANGED << taggerVars, overlayVars >>

\* The setup hook: if let Err(e) = spawn_tagger_sc(..) { eprintln!(..) }; Ok(())
\* Either way setup succeeds and the event loop starts.
SetupReturn ==
    /\ pc[Main] = "s_ret"
    /\ pc' = [pc EXCEPT ![Main] = "running"]
    /\ res' = [res EXCEPT ![Main] = "none"]
    /\ UNCHANGED << taggerVars, overlayVars >>

Setup ==
    \/ spawn_tagger_sc(Main)
    \/ SetupReturn

-----------------------------------------------------------------------------
(* The RunEvent::Exit handler of run(), on the main thread.                *)

\* The runtime delivers RunEvent::Exit: the event loop is over.
ExitEvent ==
    /\ pc[Main] = "running"
    /\ pc' = [pc EXCEPT ![Main] = "e_lock"]
    /\ UNCHANGED << res, taggerVars, overlayVars >>

\* (mutant) a handler that goes on without waiting for the mutex.
ExitLockNoWait ==
    /\ pc[Main] = "e_lock"
    /\ tagger_lock' = tagger_lock \cup {Main}
    /\ pc' = [pc EXCEPT ![Main] = "e_take"]
    /\ UNCHANGED << res, tagger_state, procs, fs, platform, path, child,
                    child_process, kill_result, taskkill, overlayVars >>

\* if let Ok(mut child) = tagger_state_clone.0.lock()
ExitLock ==
    /\ pc[Main] = "e_lock"
    /\ CanLock(tagger_lock)
    /\ tagger_lock' = tagger_lock \cup {Main}
    /\ pc' = [pc EXCEPT ![Main] = "e_take"]
    /\ UNCHANGED << res, tagger_state, procs, fs, platform, path, child,
                    child_process, kill_result, taskkill, overlayVars >>

\* if let Some(child_process) = child.take()   (None: the guard is dropped)
ExitTake ==
    /\ pc[Main] = "e_take"
    /\ child_process' = tagger_state
    /\ tagger_state' = None
    /\ IF IsSome(tagger_state)
       THEN /\ pc' = [pc EXCEPT ![Main] = "e_kill"]
            /\ UNCHANGED tagger_lock
       ELSE /\ pc' = [pc EXCEPT ![Main] = "e_done"]
            /\ tagger_lock' = tagger_lock \ {Main}
    /\ UNCHANGED << res, procs, fs, platform, path, child,
                    kill_result, taskkill, overlayVars >>

\* (mutant) a handler that escalates a failed kill(): exit is aborted.
ExitKillDirectEscalating ==
    /\ pc[Main] = "e_kill"
    /\ platform = "other"
    /\ \E killed \in BOOLEAN :
         /\ procs' = IF killed THEN Killed(procs, Unwrap(child_process)) ELSE procs
         /\ kill_result' = IF killed THEN "Ok" ELSE "Err"
         /\ tagger_lock' = tagger_lock \ {Main}
         /\ pc' = [pc EXCEPT ![Main] = IF killed THEN "e_done" ELSE "e_abort"]
    /\ UNCHANGED << res, tagger_state, fs, platform, path, child,
                    child_process, taskkill, overlayVars >>

\* not(windows): let _ = child_process.kill();  the OS kills the process, or
\* refuses; either way the result is discarded and the guard is dropped.
ExitKillDirect ==
    /\ pc[Main] = "e_kill"
    /\ platform = "other"
    /\ \E killed \in BOOLEAN :
         /\ procs' = IF killed THEN Killed(procs, Unwrap(child_process)) ELSE procs
         /\ kill_result' = IF killed THEN "Ok" ELSE "Err"
    /\ tagger_lock' = tagger_lock \ {Main}
    /\ pc' = [pc EXCEPT ![Main] = "e_done"]
    /\ UNCHANGED << res, tagger_state, fs, platform, path, child,
                    child_process, taskkill, overlayVars >>

\* windows: Command::new("taskkill").args(["/F", "/T", "/PID", pid]).output()
\* starts the helper, or fails to start it (the Err is discarded).
ExitKillTree ==
    /\ pc[Main] = "e_kill"
    /\ platform = "windows"
    /\ \E started \in BOOLEAN :
         IF started
         THEN /\ taskkill' = "running"
              /\ pc' = [pc EXCEPT ![Main] = "e_wait"]
              /\ UNCHANGED << kill_result, tagger_lock >>
         ELSE /\ kill_result' = "Err"
              /\ tagger_lock' = tagger_lock \ {Main}
              /\ pc' = [pc EXCEPT ![Main] = "e_done"]
              /\ UNCHANGED taskkill
    /\ UNCHANGED << res, tagger_state, procs, fs, platform, path, child,
                    child_process, overlayVars >>

\* (mutant) spawn() instead of output(): nothing waits for the helper.
OutputReadyAtOnce(tk) == TRUE

\* output() returns once the helper has exited.
OutputReady(tk) == tk \in {"killed", "failed"}

\* ... .output(): "we use output() to wait for it to finish"; then the guard
\* is dropped.
ExitWait ==
    /\ pc[Main] = "e_wait"
    /\ OutputReady(taskkill)
    /\ kill_result' = "Ok"
    /\ tagger_lock' = tagger_lock \ {Main}
    /\ pc' = [pc EXCEPT ![Main] = "e_done"]
    /\ UNCHANGED << res, tagger_state, procs, fs, platform, path, child,
                    child_process, taskkill, overlayVars >>

\* The callback has returned: the host process exits and its tasks with it.
HostExit ==
    /\ pc[Main] = "e_done"
    /\ pc' = [pc EXCEPT ![Main] = "exited"]
    /\ UNCHANGED << res, taggerVars, overlayVars >>

ExitHandler ==
    \/ ExitEvent
    \/ ExitLock
    \/ ExitTake
    \/ ExitKillDirect
    \/ ExitKillTree
    \/ ExitWait
    \/ HostExit

-----------------------------------------------------------------------------
(* The environment of the sidecar.                                         *)

\* The taskkill helper runs: it terminates the tree of the pid, or fails.
TaskkillRuns ==
    /\ taskkill = "running"
    /\ \E killed \in BOOLEAN :
         /\ procs' = IF killed THEN Killed(procs, Unwrap(child_process)) ELSE procs
         /\ taskkill' = IF killed THEN "killed" ELSE "failed"
    /\ UNCHANGED << pc, res, tagger_state, tagger_lock, fs, platform, path, child,
                    child_process, kill_result, overlayVars >>

\* (mutant) a supervisor that watches the worker and empties the slot when
\* the worker exits.
WorkerExitsReaped ==
    /\ \E p \in Live :
         /\ procs' = Killed(procs, p)
         /\ tagger_state' = IF tagger_state = Some(p) THEN None ELSE tagger_state
    /\ UNCHANGED << pc, res, tagger_lock, fs, platform, path, child,
                    child_process, kill_result, taskkill, overlayVars >>

\* A worker exits on its own (a crash, a normal exit): nobody is told.
WorkerExits ==
    /\ \E p \in Live : procs' = Killed(procs, p)
    /\ UNCHANGED << pc, res, tagger_state, tagger_lock, fs, platform, path, child,
                    child_process, kill_result, taskkill, overlayVars >>

\* The binary is installed, removed, or a directory becomes (un)readable.
FsChange ==
    /\ HostAlive
    /\ \E f \in FsStates \ {fs} : fs' = f
    /\ UNCHANGED << pc, res, tagger_state, tagger_lock, procs, platform, path, child,
                    child_process, kill_result, taskkill, overlayVars >>

TaggerEnv ==
    \/ TaskkillRuns
    \/ WorkerExits
    \/ FsChange

-----------------------------------------------------------------------------
(* The embedded browser: the host's webviews and EMBEDDED_WEBVIEWS.        *)

\* The label every command uses.
EB == "embedded_browser"

\* Logical positions and sizes the UI passes (x, y) and (width, height).
Coords == {1, 2}

\* The `url` strings the UI passes, and Url::parse on them: a string that is
\* no URL is an error, and a URL is normalised (an empty path becomes "/").
RawUrls == {"https://a.example", "https://b.example/", "not a url"}

\* (mutant) a parser that takes any string for a URL.
ParseUrlLenient(u) == [ok |-> TRUE, val |-> u]

ParseUrl(u) ==
    CASE u = "https://a.example"  -> [ok |-> TRUE, val |-> "https://a.example/"]
      [] u = "https://b.example/" -> [ok |-> TRUE, val |-> "https://b.example/"]
      [] OTHER                    -> [ok |-> FALSE, val |-> "Invalid URL"]

\* The webview of the main window itself (the application's UI).
MainWebview ==
    [id |-> 0, label |-> "main", url |-> "tauri://localhost", visible |-> TRUE,
     pos |-> 0, size |-> 0]

\* The live surfaces carrying a label.
Labelled(tbl, label) == {w \in tbl : w.label = label}
\* app.get_webview(label): the webview with that label, if there is one.
get_webview(tbl, label) ==
    IF Labelled(tbl, label) = {} THEN None
    ELSE Some((CHOOSE w \in Labelled(tbl, label) : TRUE).id)
\* The surface behind a handle, if it still exists.
Behind(tbl, h) == {w \in tbl : w.id = Unwrap(h)}
StillThere(tbl, h) == Behind(tbl, h) # {}

\* A webview id the host has not given to any surface that exists or that a
\* running command still refers to.
UsedIds == {w.id : w \in webviews_tbl} \cup
           {Unwrap(webview[c]) : c \in {d \in Callers : IsSome(webview[d])}}
FreshId == CHOOSE i \in 1..(Cardinality(UsedIds) + 1) :
               i \notin UsedIds /\ \A j \in 1..(i - 1) : j \in UsedIds

\* (mutant) a host that accepts a second webview under a label in use.
LabelNeverTaken(tbl, label) == FALSE

\* add_child refuses a label that a webview of the table already carries.
LabelTaken(tbl, label) == Labelled(tbl, label) # {}

\* (mutant) an insert that records nothing.
InsertNothing(m, k) == m

\* store.webviews.insert(k, true) / .remove(k) / the flag of k.
Insert(m, k) == {e \in m : e[1] # k} \cup {<< k, TRUE >>}
Remove(m, k) == {e \in m : e[1] # k}
Flag(m, k) == << k, TRUE >> \in m

\* The end of a command: its result is set.  What the command was given and
\* what it saw (url, webview, close_result) stays on record until the result
\* has been delivered.
Finish(t, r) ==
    /\ res' = [res EXCEPT ![t] = r]
    /\ pc' = [pc EXCEPT ![t] = "ret"]

\* --- close_embedded_browser (also the first statement of open) ---

\* close_embedded_browser returns r: to the UI, or to open_embedded_browser,
\* which discards it (let _ =) and goes on to parse the url.
CloseFinish(t, r) ==
    IF op[t] = "open"
    THEN /\ close_result' = [close_result EXCEPT ![t] = r]
         /\ pc' = [pc EXCEPT ![t] = "o_parse"]
         /\ UNCHANGED res
    ELSE /\ Finish(t, r)
         /\ UNCHANGED close_result

\* if let Some(webview) = app.get_webview("embedded_browser")
CloseGet(t) ==
    /\ pc[t] = "c_get"
    /\ webview' = [webview EXCEPT ![t] = get_webview(webviews_tbl, EB)]
    /\ pc' = [pc EXCEPT ![t] = IF IsSome(webview'[t]) THEN "c_close" ELSE "c_lock"]
    /\ UNCHANGED << res, taggerVars, main_window, webviews_tbl, store, store_lock,
                    op, url, close_result >>

\* webview.close().map_err(..)?  : the surface is destroyed, or the host
\* reports an error and the function returns it (the registry is not touched).
\* On a surface that is already gone nothing is destroyed.
CloseDestroy(t) ==
    /\ pc[t] = "c_close"
    /\ \E closed \in BOOLEAN :
         IF closed
         THEN /\ webviews_tbl' = webviews_tbl \ Behind(webviews_tbl, webview[t])
              /\ pc' = [pc EXCEPT ![t] = "c_lock"]
              /\ UNCHANGED << res, close_result >>
         ELSE /\ CloseFinish(t, "CloseFailed")
              /\ UNCHANGED webviews_tbl
    /\ UNCHANGED << taggerVars, main_window, store, store_lock, op, webview, url >>

\* if let Ok(mut store) = EMBEDDED_WEBVIEWS.lock()
CloseLock(t) ==
    /\ pc[t] = "c_lock"
    /\ CanLock(store_lock)
    /\ store_lock' = store_lock \cup {t}
    /\ pc' = [pc EXCEPT ![t] = "c_remove"]
    /\ UNCHANGED << res, taggerVars, main_window, webviews_tbl, store,
                    op, webview, url, close_result >>

\* store.webviews.remove("embedded_browser"); the guard is dropped; Ok(())
CloseRemove(t) ==
    /\ pc[t] = "c_remove"
    /\ store' = Remove(store, EB)
    /\ store_lock' = store_lock \ {t}
    /\ CloseFinish(t, "Ok")
    /\ UNCHANGED << taggerVars, main_window, webviews_tbl, op, webview, url >>

\* --- open_embedded_browser, after its close_embedded_browser(..).await ---

\* Url::parse(&url).map_err(..)?  then  app.get_window("main").ok_or(..)?
OpenParse(t) ==
    /\ pc[t] = "o_parse"
    /\ \E u \in RawUrls :
         /\ url' = [url EXCEPT ![t] = u]
         /\ IF ~ParseUrl(u).ok THEN Finish(t, "InvalidUrl")
            ELSE IF ~main_window THEN Finish(t, "NoMainWindow")
            ELSE /\ pc' = [pc EXCEPT ![t] = "o_add"]
                 /\ UNCHANGED res
    /\ UNCHANGED << taggerVars, main_window, webviews_tbl, store, store_lock,
                    op, webview, close_result >>

\* window.add_child(webview_builder, position, size).map_err(..)?  : the host
\* refuses a label in use, and creation can fail for reasons of its own.
OpenAdd(t) ==
    /\ pc[t] = "o_add"
    /\ \E created \in BOOLEAN, p \in Coords, s \in Coords :
         IF created /\ ~LabelTaken(webviews_tbl, EB)
         THEN /\ webviews_tbl' = webviews_tbl \cup
                    {[id |-> FreshId, label |-> EB, url |-> ParseUrl(url[t]).val,
                      visible |-> TRUE, pos |-> p, size |-> s]}
              /\ pc' = [pc EXCEPT ![t] = "o_lock"]
              /\ UNCHANGED res
         ELSE /\ Finish(t, "CreateFailed")
              /\ UNCHANGED webviews_tbl
    /\ UNCHANGED << taggerVars, main_window, store, store_lock,
                    op, webview, url, close_result >>

\* if let Ok(mut store) = EMBEDDED_WEBVIEWS.lock()
OpenLock(t) ==
    /\ pc[t] = "o_lock"
    /\ CanLock(store_lock)
    /\ store_lock' = store_lock \cup {t}
    /\ pc' = [pc EXCEPT ![t] = "o_insert"]
    /\ UNCHANGED << res, taggerVars, main_window, webviews_tbl, store,
                    op, webview, url, close_result >>

\* store.webviews.insert("embedded_browser", true); the guard is dropped; Ok(())
OpenInsert(t) ==
    /\ pc[t] = "o_insert"
    /\ store' = Insert(store, EB)
    /\ store_lock' = store_lock \ {t}
    /\ Finish(t, "Ok")
    /\ UNCHANGED << taggerVars, main_window, webviews_tbl,
                    op, webview, url, close_result >>

\* --- navigate_embedded_browser ---

\* (mutant) a navigate that parses its url before it looks for the surface.
NavigateGetParseFirst(t) ==
    /\ pc[t] = "n_get"
    /\ webview' = [webview EXCEPT ![t] = get_webview(webviews_tbl, EB)]
    /\ \E u \in RawUrls :
         /\ url' = [url EXCEPT ![t] = u]
         /\ IF ~ParseUrl(u).ok THEN Finish(t, "InvalidUrl")
            ELSE IF IsSome(webview'[t])
            THEN /\ pc' = [pc EXCEPT ![t] = "n_load"]
                 /\ UNCHANGED res
            ELSE Finish(t, "Ok")
    /\ UNCHANGED << taggerVars, main_window, webviews_tbl, store, store_lock,
                    op, close_result >>

\* if let Some(webview) = app.get_webview("embedded_browser")  (None: Ok(()))
NavigateGet(t) ==
    /\ pc[t] = "n_get"
    /\ webview' = [webview EXCEPT ![t] = get_webview(webviews_tbl, EB)]
    /\ IF IsSome(webview'[t])
       THEN /\ pc' = [pc EXCEPT ![t] = "n_load"]
            /\ UNCHANGED res
       ELSE Finish(t, "Ok")
    /\ UNCHANGED << taggerVars, main_window, webviews_tbl, store, store_lock,
                    op, url, close_result >>

\* (mutant) a navigate that hands the string to the surface unvalidated.
NavigateLoadUnvalidated(t) ==
    /\ pc[t] = "n_load"
    /\ \E u \in RawUrls, loaded \in BOOLEAN :
         /\ url' = [url EXCEPT ![t] = u]
         /\ IF loaded
            THEN /\ webviews_tbl' =
                       {IF w.id = Unwrap(webview[t])
                        THEN [w EXCEPT !.url = u] ELSE w
                        : w \in webviews_tbl}
                 /\ Finish(t, "Ok")
            ELSE /\ Finish(t, "NavigateFailed")
                 /\ UNCHANGED webviews_tbl
    /\ UNCHANGED << taggerVars, main_window, store, store_lock,
                    op, webview, close_result >>

\* Url::parse(&url).map_err(..)?  then  webview.navigate(parsed_url).map_err(..)?
NavigateLoad(t) ==
    /\ pc[t] = "n_load"
    /\ \E u \in RawUrls, loaded \in BOOLEAN :
         /\ url' = [url EXCEPT ![t] = u]
         /\ IF ~ParseUrl(u).ok
            THEN /\ Finish(t, "InvalidUrl")
                 /\ UNCHANGED webviews_tbl
            ELSE IF loaded
            THEN /\ webviews_tbl' =
                       {IF w.id = Unwrap(webview[t])
                        THEN [w EXCEPT !.url = ParseUrl(u).val] ELSE w
                        : w \in webviews_tbl}
                 /\ Finish(t, "Ok")
            ELSE /\ Finish(t, "NavigateFailed")
                 /\ UNCHANGED webviews_tbl
    /\ UNCHANGED << taggerVars, main_window, store, store_lock,
                    op, webview, close_result >>

\* --- resize_embedded_browser ---

ResizeGet(t) ==
    /\ pc[t] = "r_get"
    /\ webview' = [webview EXCEPT ![t] = get_webview(webviews_tbl, EB)]
    /\ IF IsSome(webview'[t])
       THEN /\ pc' = [pc EXCEPT ![t] = "r_pos"]
            /\ UNCHANGED res
       ELSE Finish(t, "Ok")
    /\ UNCHANGED << taggerVars, main_window, webviews_tbl, store, store_lock,
                    op, url, close_result >>

\* (mutant) a resize that goes on to set the size after set_position failed,
\* and then reports the position error.
ResizePositionThenSizeAnyway(t) ==
    /\ pc[t] = "r_pos"
    /\ \E p \in Coords, s \in Coords, moved \in BOOLEAN :
         IF moved
         THEN /\ webviews_tbl' =
                    {IF w.id = Unwrap(webview[t]) THEN [w EXCEPT !.pos = p] ELSE w
                     : w \in webviews_tbl}
              /\ pc' = [pc EXCEPT ![t] = "r_size"]
              /\ UNCHANGED res
         ELSE /\ webviews_tbl' =
                    {IF w.id = Unwrap(webview[t]) THEN [w EXCEPT !.size = s] ELSE w
                     : w \in webviews_tbl}
              /\ Finish(t, "PositionFailed")
    /\ UNCHANGED << taggerVars, main_window, store, store_lock,
                    op, webview, url, close_result >>

\* webview.set_position(LogicalPosition::new(x, y)).map_err(..)?
ResizePosition(t) ==
    /\ pc[t] = "r_pos"
    /\ \E p \in Coords, moved \in BOOLEAN :
         IF moved
         THEN /\ webviews_tbl' =
                    {IF w.id = Unwrap(webview[t]) THEN [w EXCEPT !.pos = p] ELSE w
                     : w \in webviews_tbl}
              /\ pc' = [pc EXCEPT ![t] = "r_size"]
              /\ UNCHANGED res
         ELSE /\ Finish(t, "PositionFailed")
              /\ UNCHANGED webviews_tbl
    /\ UNCHANGED << taggerVars, main_window, store, store_lock,
                    op, webview, url, close_result >>

\* webview.set_size(LogicalSize::new(width, height)).map_err(..)?; Ok(())
ResizeSize(t) ==
    /\ pc[t] = "r_size"
    /\ \E s \in Coords, sized \in BOOLEAN :
         IF sized
         THEN /\ webviews_tbl' =
                    {IF w.id = Unwrap(webview[t]) THEN [w EXCEPT !.size = s] ELSE w
                     : w \in webviews_tbl}
              /\ Finish(t, "Ok")
         ELSE /\ Finish(t, "SizeFailed")
              /\ UNCHANGED webviews_tbl
    /\ UNCHANGED << taggerVars, main_window, store, store_lock,
                    op, webview, url, close_result >>

\* --- show_embedded_browser / hide_embedded_browser ---

VisibilityGet(t) ==
    /\ pc[t] = "v_get"
    /\ webview' = [webview EXCEPT ![t] = get_webview(webviews_tbl, EB)]
    /\ IF IsSome(webview'[t])
       THEN /\ pc' = [pc EXCEPT ![t] = "v_set"]
            /\ UNCHANGED res
       ELSE Finish(t, "Ok")
    /\ UNCHANGED << taggerVars, main_window, webviews_tbl, store, store_lock,
                    op, url, close_result >>

\* (mutant) a hide that destroys the surface instead of hiding it.
VisibilitySetClosing(t) ==
    /\ pc[t] = "v_set"
    /\ \E done \in BOOLEAN :
         IF done
         THEN /\ webviews_tbl' =
                    IF op[t] = "show"
                    THEN {IF w.id = Unwrap(webview[t])
                          THEN [w EXCEPT !.visible = TRUE] ELSE w
                          : w \in webviews_tbl}
                    ELSE webviews_tbl \ Behind(webviews_tbl, webview[t])
              /\ Finish(t, "Ok")
         ELSE /\ Finish(t, IF op[t] = "show" THEN "ShowFailed" ELSE "HideFailed")
              /\ UNCHANGED webviews_tbl
    /\ UNCHANGED << taggerVars, main_window, store, store_lock,
                    op, webview, url, close_result >>

\* webview.show().map_err(..)?  /  webview.hide().map_err(..)?
VisibilitySet(t) ==
    /\ pc[t] = "v_set"
    /\ \E done \in BOOLEAN :
         IF done
         THEN /\ webviews_tbl' =
                    {IF w.id = Unwrap(webview[t])
                     THEN [w EXCEPT !.visible = (op[t] = "show")] ELSE w
                     : w \in webviews_tbl}
              /\ Finish(t, "Ok")
         ELSE /\ Finish(t, IF op[t] = "show" THEN "ShowFailed" ELSE "HideFailed")
              /\ UNCHANGED webviews_tbl
    /\ UNCHANGED << taggerVars, main_window, store, store_lock,
                    op, webview, url, close_result >>

\* --- is_browser_open ---

\* (mutant) an is_browser_open that answers from the registry.
IsBrowserOpenFromRegistry(t) ==
    /\ pc[t] = "q_get"
    /\ Finish(t, IF Flag(store, EB) THEN "true" ELSE "false")
    /\ UNCHANGED << taggerVars, main_window, webviews_tbl, store, store_lock,
                    op, webview, url, close_result >>

\* app.get_webview("embedded_browser").is_some()
is_browser_open(t) ==
    /\ pc[t] = "q_get"
    /\ Finish(t, IF IsSome(get_webview(webviews_tbl, EB)) THEN "true" ELSE "false")
    /\ UNCHANGED << taggerVars, main_window, webviews_tbl, store, store_lock,
                    op, webview, url, close_result >>

\* --- invocation and return ---

OverlayOps == {"open", "close", "navigate", "resize", "show", "hide", "is_open"}
Entry(o) ==
    CASE o \in {"open", "close"} -> "c_get"
      [] o = "navigate"          -> "n_get"
      [] o = "resize"            -> "r_get"
      [] o \in {"show", "hide"}  -> "v_get"
      [] OTHER                   -> "q_get"

\* The UI invokes an overlay command: a new task runs it.  Tasks are
\* interchangeable, so the new one takes the lowest free task number.
OverlayInvoke(t) ==
    /\ pc[t] = "idle"
    /\ \A u \in Threads : u < t => pc[u] # "idle"
    /\ EventLoopRuns
    /\ \E o \in OverlayOps :
         /\ op' = [op EXCEPT ![t] = o]
         /\ pc' = [pc EXCEPT ![t] = Entry(o)]
    /\ UNCHANGED << res, taggerVars, main_window, webviews_tbl, store, store_lock,
                    webview, url, close_result >>

\* The command's future resolves: the result is delivered, the task ends.
OverlayReturn(t) ==
    /\ pc[t] = "ret"
    /\ pc' = [pc EXCEPT ![t] = "idle"]
    /\ res' = [res EXCEPT ![t] = "none"]
    /\ op' = [op EXCEPT ![t] = "none"]
    /\ url' = [url EXCEPT ![t] = "none"]
    /\ webview' = [webview EXCEPT ![t] = None]
    /\ close_result' = [close_result EXCEPT ![t] = "none"]
    /\ UNCHANGED << taggerVars, main_window, webviews_tbl, store, store_lock >>

\* No overlay command is in flight.
OverlayQuiet == \A t \in Threads : op[t] = "none"

\* One step of one overlay command.
OverlayStep ==
    \/ \E t \in Threads : CloseGet(t)
    \/ \E t \in Threads : CloseDestroy(t)
    \/ \E t \in Threads : CloseLock(t)
    \/ \E t \in Threads : CloseRemove(t)
    \/ \E t \in Threads : OpenParse(t)
    \/ \E t \in Threads : OpenAdd(t)
    \/ \E t \in Threads : OpenLock(t)
    \/ \E t \in Threads : OpenInsert(t)
    \/ \E t \in Threads : NavigateGet(t)
    \/ \E t \in Threads : NavigateLoad(t)
    \/ \E t \in Threads : ResizeGet(t)
    \/ \E t \in Threads : ResizePosition(t)
    \/ \E t \in Threads : ResizeSize(t)
    \/ \E t \in Threads : VisibilityGet(t)
    \/ \E t \in Threads : VisibilitySet(t)
    \/ \E t \in Threads : is_browser_open(t)
    \/ \E t \in Threads : OverlayReturn(t)

-----------------------------------------------------------------------------
(* Initial state: run() has built TaggerState(Arc::new(Mutex::new(None))),  *)
(* EMBEDDED_WEBVIEWS is empty, the main window holds its own webview, and  *)
(* the setup hook is about to call spawn_tagger_sc.                        *)

InitTagger ==
    /\ tagger_state = None
    /\ tagger_lock = {}
    /\ procs = << >>
    /\ fs \in FsStates
    /\ platform \in {"windows", "other"}
    /\ path = [c \in Callers |-> "none"]
    /\ child = [c \in Callers |-> None]
    /\ child_process = None
    /\ kill_result = "none"
    /\ taskkill = "none"

InitOverlay ==
    /\ main_window = TRUE
    /\ webviews_tbl = {MainWebview}
    /\ store = {}
    /\ store_lock = {}
    /\ op = [c \in Callers |-> "none"]
    /\ webview = [c \in Callers |-> None]
    /\ url = [c \in Callers |-> "none"]
    /\ close_result = [c \in Callers |-> "none"]

Init ==
    /\ pc = [c \in Callers |-> IF c = Main THEN "s_lock" ELSE "idle"]
    /\ res = [c \in Callers |-> "none"]
    /\ InitTagger
    /\ InitOverlay

NextTagger ==
    \/ Setup
    \/ \E t \in Threads : start_tagger(t)
    \/ \E t \in Threads : CheckTaggerBinary(t)
    \/ ExitHandler
    \/ TaggerEnv

\* The sidecar supervisor and the shutdown coordinator.
SpecTagger == Init /\ [][NextTagger]_vars

\* Fair scheduling of the sidecar's threads: a thread that can take a step
\* does (the OS calls it makes return), a task asking for the slot's mutex
\* again and again gets it, and the taskkill helper, once started, runs.
\* Nothing obliges the UI to invoke a command or the user to quit.
StartSteps(t) ==
    HostAlive /\ (\/ SpawnCheck(t) \/ SpawnResolve(t) \/ SpawnProcess(t)
                  \/ SpawnStore(t) \/ StartTaggerReturn(t)
                  \/ CheckTaggerBinaryReturn(t))
ExitSteps ==
    \/ ExitLock \/ ExitTake \/ ExitKillDirect \/ ExitKillTree \/ ExitWait \/ HostExit
FairTagger ==
    /\ WF_vars(Setup)
    /\ WF_vars(ExitSteps)
    /\ WF_vars(TaskkillRuns)
    /\ \A t \in Threads : SF_vars(HostAlive /\ SpawnLock(t))
    /\ \A t \in Threads : WF_vars(StartSteps(t))

SpecTaggerFair == SpecTagger /\ FairTagger

\* The state the overlay commands start from: setup is over (here its
\* auto-start found no binary) and the event loop delivers commands.
InitRunning ==
    /\ pc = [c \in Callers |-> IF c = Main THEN "running" ELSE "idle"]
    /\ res = [c \in Callers |-> "none"]
    /\ InitTagger
    /\ fs = [exe |-> "absent", cwd |-> "absent"]
    /\ platform = "other"
    /\ InitOverlay

\* Overlay commands invoked concurrently.
InvokeAny == \E t \in Threads : OverlayInvoke(t)

NextOverlay ==
    \/ InvokeAny
    \/ OverlayStep

SpecOverlay == InitRunning /\ [][NextOverlay]_vars

\* Fair scheduling of the overlay tasks: a task that can take a step does, and
\* a task asking for the registry's mutex again and again gets it.
OverlayLockSteps(t) == CloseLock(t) \/ OpenLock(t)
OverlayFreeSteps(t) ==
    \/ CloseGet(t) \/ CloseDestroy(t) \/ CloseRemove(t)
    \/ OpenParse(t) \/ OpenAdd(t) \/ OpenInsert(t)
    \/ NavigateGet(t) \/ NavigateLoad(t)
    \/ ResizeGet(t) \/ ResizePosition(t) \/ ResizeSize(t)
    \/ VisibilityGet(t) \/ VisibilitySet(t)
    \/ is_browser_open(t)
FairOverlay ==
    /\ \A t \in Threads : SF_vars(OverlayLockSteps(t))
    /\ \A t \in Threads : WF_vars(OverlayFreeSteps(t))

SpecOverlayFair == SpecOverlay /\ FairOverlay

\* Overlay commands invoked one after the other: each is awaited before the
\* next is invoked.
InvokeAwaited == OverlayQuiet /\ InvokeAny

NextOverlaySeq ==
    \/ InvokeAwaited
    \/ OverlayStep

SpecOverlaySeq == InitRunning /\ [][NextOverlaySeq]_vars

\* Everything together: the overlay tasks stop with the host process.
Next ==
    \/ NextTagger
    \/ HostAlive /\ NextOverlay

Spec == Init /\ [][Next]_vars

-----------------------------------------------------------------------------
(* Properties of the sidecar supervisor and the shutdown coordinator.      *)

\* The exit handler has taken the process out of the slot (or found none).
ExitDrained == pc[Main] \in {"e_kill", "e_wait", "e_done", "exited"}
\* The exit handler has returned.
ExitReturned == pc[Main] \in {"e_done", "exited"}
\* The termination request of the exit handler failed: kill() or the start of
\* taskkill returned Err, or taskkill ran and did not terminate the tree.
TerminationFailed == kill_result = "Err" \/ taskkill = "failed"

\* C1: however the start() calls (the setup auto-start, start_tagger) interleave,
\* at most one worker process is live and at most one call has spawned one; a
\* call that returns Ok leaves the slot occupied.  The claim is about start()
\* calls, so it is stated of the states the exit handler has not yet drained.
C1_SingleWorker ==
    ~ExitDrained =>
        /\ Cardinality(Live) <= 1
        /\ Len(procs) <= 1
        /\ \A c \in Callers : pc[c] = "s_ret" /\ res[c] = "Ok" => IsSome(tagger_state)

\* C1 witness: one call has spawned and holds the lock, another waits for it.
C1_Witness ==
    \E t1, t2 \in Threads :
        /\ t1 # t2
        /\ pc[t1] = "s_store"
        /\ pc[t2] = "s_lock"
        /\ Live = {Unwrap(child[t1])}

\* C2 (as claimed): once the exit handler has returned, no worker process is
\* live, in that state and in every later one.  Stated here even granting that
\* the handler's termination request did not fail.
C2_NoWorkerAfterExit ==
    ExitReturned /\ ~TerminationFailed => Live = {}

C9_AbsentBinary ==
    [][fs.exe = "absent" /\ fs.cwd = "absent" =>
         \A c \in Callers :
            /\ pc'[c] = "b_ret" /\ pc[c] # "b_ret" => res'[c] = "false"
            /\ pc[c] = "s_resolve" /\ pc'[c] # "s_resolve" =>
                 /\ pc'[c] = "s_ret"
                 /\ res'[c] = "NotFound"
                 /\ procs' = procs
                 /\ tagger_state = None /\ tagger_state' = None]_vars

\* C9 witness: a start_tagger call is returning "not found" with the binary
\* absent at both locations, nothing spawned and the slot empty.
C9_Witness ==
    \E t \in Threads :
        /\ pc[t] = "s_ret"
        /\ res[t] = "NotFound"
        /\ fs.exe = "absent" /\ fs.cwd = "absent"
        /\ procs = << >>
        /\ tagger_state = None

-----------------------------------------------------------------------------
(* Properties of the embedded browser overlay.                             *)

\* The surfaces labelled "embedded_browser".
Surfaces == Labelled(webviews_tbl, EB)

C5_FlagIffSurface ==
    OverlayQuiet => (Flag(store, EB) <=> Surfaces # {})

\* The positions of open and close between the existence check (get_webview)
\* and the end of the registry update.
CheckThroughUpdate == {"c_close", "c_lock", "c_remove", "o_parse", "o_add", "o_lock", "o_insert"}

\* C6 (as claimed): an overlay command holds the registry lock from its
\* existence check through its create/destroy action and its registry update.
C6_LockHeldCheckThroughUpdate ==
    \A t \in Threads : pc[t] \in CheckThroughUpdate => t \in store_lock

\* C7: commands awaited one after the other:  an open that succeeds leaves
\* exactly one surface, loaded with the (parsed) url of this open, and the flag
\* true; the surface an earlier open had created no longer exists.
C7_ReopenReplaces ==
    \A t \in Threads :
        pc[t] = "ret" /\ op[t] = "open" /\ res[t] = "Ok" =>
            /\ \E w \in webviews_tbl :
                  /\ Surfaces = {w}
                  /\ w.url = ParseUrl(url[t]).val
            /\ Flag(store, EB)
            /\ IsSome(webview[t]) => ~StillThere(webviews_tbl, webview[t])

\* C7 witness: the second open has returned Ok; its close had found the surface
\* of the first, and the surface now shown is loaded with the second url.
C7_Witness ==
    \E t \in Threads :
        /\ pc[t] = "ret" /\ op[t] = "open" /\ res[t] = "Ok"
        /\ IsSome(webview[t])
        /\ url[t] = "https://a.example"
        /\ \E w \in Surfaces : w.url = "https://a.example/" /\ w.id # Unwrap(webview[t])

\* C8: commands awaited one after the other:  an open with a malformed url
\* returns InvalidUrl and creates no surface; if its close succeeded, no
\* surface exists, the flag is not set and is_browser_open would answer false.
C8_MalformedOpen ==
    \A t \in Threads :
        op[t] = "open" /\ url[t] = "not a url" =>
            /\ pc[t] = "ret"
            /\ res[t] = "InvalidUrl"
            /\ close_result[t] = "CloseFailed" =>
                  \A w \in Surfaces : w.id = Unwrap(webview[t])
            /\ close_result[t] = "Ok" =>
                  /\ Surfaces = {}
                  /\ ~Flag(store, EB)
                  /\ ~IsSome(get_webview(webviews_tbl, EB))

\* C8 witness: an open with a malformed url has returned InvalidUrl after its
\* close destroyed the surface that was showing.
C8_Witness ==
    \E t \in Threads :
        /\ pc[t] = "ret" /\ op[t] = "open" /\ url[t] = "not a url"
        /\ res[t] = "InvalidUrl"
        /\ close_result[t] = "Ok"
        /\ IsSome(webview[t])
        /\ Surfaces = {}

\* The commands that act on an existing surface only.
TargetOps == {"close", "navigate", "resize", "show", "hide"}

\* C10: commands awaited one after the other:  close, navigate, resize, show
\* and hide that find no surface return Ok, create none and leave the flag
\* false, so that is_browser_open would answer false (close is idempotent).
C10_NoSurfaceNoOp ==
    \A t \in Threads :
        pc[t] = "ret" /\ op[t] \in TargetOps /\ webview[t] = None =>
            /\ res[t] = "Ok"
            /\ Surfaces = {}
            /\ ~Flag(store, EB)
            /\ ~IsSome(get_webview(webviews_tbl, EB))

\* C10 witness: a navigate that found no surface has returned Ok.
C10_Witness ==
    \E t \in Threads :
        /\ pc[t] = "ret" /\ op[t] = "navigate" /\ webview[t] = None
        /\ res[t] = "Ok"
        /\ Surfaces = {}

\* A surface with its visibility erased: what show and hide must not change.
Shown(w) == [w EXCEPT !.visible = TRUE]

\* C11: commands awaited one after the other:  a show or hide on an existing
\* surface leaves the same surfaces with the same urls (is_browser_open would
\* still answer true) and the registry as it was; when it succeeds the
\* surface is visible after show and hidden after hide, and nothing else of
\* it has changed.
C11_VisibilityKeepsOverlay ==
    [][\A t \in Threads :
         op[t] \in {"show", "hide"} /\ pc[t] \in {"v_get", "v_set"} /\ pc'[t] # pc[t] =>
            /\ store' = store
            /\ {Shown(w) : w \in webviews_tbl'} = {Shown(w) : w \in webviews_tbl}
            /\ Cardinality(webviews_tbl') = Cardinality(webviews_tbl)
            /\ get_webview(webviews_tbl', EB) = get_webview(webviews_tbl, EB)
            /\ pc[t] = "v_set" /\ res'[t] = "Ok" =>
                  \A w \in Labelled(webviews_tbl', EB) : w.visible = (op[t] = "show")
            /\ pc[t] = "v_set" /\ res'[t] # "Ok" => webviews_tbl' = webviews_tbl]_vars

\* C11 witness: after an open, a hide has returned Ok: the surface is hidden,
\* still there with its url, and the flag is still true.
C11_Witness ==
    \E t \in Threads :
        /\ pc[t] = "ret" /\ op[t] = "hide" /\ res[t] = "Ok"
        /\ Flag(store, EB)
        /\ \E w \in Surfaces :
              /\ w.id = Unwrap(webview[t])
              /\ ~w.visible
              /\ w.url = "https://b.example/"

\* C12: a start() that finds the slot occupied returns Ok at once: it does not
\* resolve the executable, spawns nothing, and the slot holds the same process
\* as before.
C12_StartOnOccupiedSlot ==
    [][\A c \in Callers :
         pc[c] = "s_check" /\ pc'[c] # "s_check" /\ IsSome(tagger_state) =>
            /\ pc'[c] = "s_ret"
            /\ res'[c] = "Ok"
            /\ path'[c] = "none"
            /\ tagger_state' = tagger_state
            /\ procs' = procs
            /\ Live' = Live]_vars

\* C12 witness: two start_tagger calls have both returned Ok and one process
\* was spawned in all: it is the one in the slot.
C12_Witness ==
    \E t1, t2 \in Threads :
        /\ t1 # t2
        /\ pc[t1] = "s_ret" /\ res[t1] = "Ok"
        /\ pc[t2] = "s_ret" /\ res[t2] = "Ok"
        /\ Len(procs) = 1
        /\ tagger_state = Some(1)
        /\ Live = {1}

\* C13: a termination failure is swallowed.  When the exit handler returns the
\* slot is empty and the handler has let go of the mutex, whatever the kill
\* request answered; and once the handler has a process to terminate, the
\* application does exit.
C13_TerminationFailureSwallowed ==
    /\ [][pc[Main] # "e_done" /\ pc'[Main] = "e_done" =>
             tagger_state' = None /\ Main \notin tagger_lock']_vars
    /\ (pc[Main] = "e_kill") ~> (pc[Main] = "exited")

\* C13 witness: the kill request failed, the worker lives on, and the
\* application has exited with the slot empty.
C13_Witness ==
    /\ pc[Main] = "exited"
    /\ TerminationFailed
    /\ IsSome(child_process)
    /\ Unwrap(child_process) \in Live
    /\ tagger_state = None

\* C14: under any interleaving, is_browser_open answers true exactly when a
\* surface labelled "embedded_browser" exists at the moment it asks the host,
\* whatever the registry says.
C14_IsOpenAsksTheHost ==
    [][\A t \in Threads :
         pc[t] = "q_get" /\ pc'[t] = "ret" =>
            res'[t] = IF Surfaces # {} THEN "true" ELSE "false"]_vars

\* C14 witness: is_browser_open has answered true while the registry, left
\* stale by a concurrent command, has no flag; the surface is there.
C14_Witness ==
    \E t \in Threads :
        /\ pc[t] = "ret" /\ op[t] = "is_open" /\ res[t] = "true"
        /\ ~Flag(store, EB)
        /\ Surfaces # {}
        /\ \A u \in Threads \ {t} : pc[u] = "idle"

C16_AdjacentPreferred ==
    [][\A c \in Callers :
         /\ pc[c] = "s_resolve" /\ fs.exe = "present" /\ pc'[c] # "s_resolve" =>
               pc'[c] = "s_spawn" /\ path'[c] = "adjacent"
         /\ pc[c] = "s_resolve" /\ pc'[c] = "s_spawn" /\ path'[c] = "cwd" =>
               fs.exe = "absent" /\ fs.cwd = "present"
         /\ pc[c] = "s_spawn" /\ pc'[c] = "s_store" =>
               /\ child'[c] = Some(Len(procs'))
               /\ procs'[Len(procs')].path = path[c]]_vars

\* C16 witness: with the binary at both locations, a start has spawned the
\* adjacent one.
C16_Witness ==
    \E c \in Callers :
        /\ pc[c] = "s_store"
        /\ fs.exe = "present" /\ fs.cwd = "present"
        /\ path[c] = "adjacent"
        /\ procs[Unwrap(child[c])].path = "adjacent"
        /\ Unwrap(child[c]) \in Live

\* A start() call is in flight with the slot's mutex: between its occupancy
\* check and the store of what it spawned.
StartHolds(c) == pc[c] \in {"s_check", "s_resolve", "s_spawn", "s_store"}
\* The exit handler has the slot's mutex.
ExitHolds == pc[Main] \in {"e_take", "e_kill", "e_wait"}

\* C17: while a start() call is in flight with the mutex, the exit handler
\* does not have it and, if the exit event has fired, cannot take it; when the
\* handler looks into the slot no spawn is pending and every live worker is
\* the one in the slot; and what the handler takes out to terminate is what
\* the slot held.
C17_ExitWaitsForStart ==
    /\ []((\E c \in Callers : StartHolds(c)) =>
              (~ExitHolds /\ (pc[Main] = "e_lock" => ~ENABLED ExitLock)))
    /\ [](pc[Main] = "e_take" =>
              /\ \A c \in Callers : child[c] = None
              /\ \A p \in Live : tagger_state = Some(p))
    /\ [][pc[Main] = "e_take" /\ pc'[Main] # "e_take" =>
             child_process' = tagger_state /\ tagger_state' = None]_vars

\* C17 witness: the exit event has fired while a start_tagger call holds the
\* mutex with a spawned worker not yet stored; the handler waits.
C17_Witness ==
    \E t \in Threads :
        /\ pc[Main] = "e_lock"
        /\ pc[t] = "s_store"
        /\ t \in tagger_lock
        /\ Unwrap(child[t]) \in Live
        /\ tagger_state = None

\* C18: an occupied slot stays occupied, by the same process, whether that
\* worker lives or has exited on its own: while it is occupied nothing is
\* spawned, every start() that looks at it returns Ok, and the only step that
\* empties it is the exit handler's take().
C18_DeadWorkerKeepsSlot ==
    [][IsSome(tagger_state) =>
         /\ \/ tagger_state' = tagger_state
            \/ pc[Main] = "e_take" /\ pc'[Main] = "e_kill" /\ tagger_state' = None
         /\ Len(procs') = Len(procs)
         /\ \A c \in Callers :
               pc[c] = "s_check" /\ pc'[c] # "s_check" =>
                  pc'[c] = "s_ret" /\ res'[c] = "Ok"]_vars

\* C18 witness: the worker in the slot has exited on its own; one start_tagger
\* has returned Ok and another is looking at the slot, and no worker is live.
C18_Witness ==
    \E t1, t2 \in Threads :
        /\ pc[t1] = "s_ret" /\ res[t1] = "Ok"
        /\ pc[t2] = "s_check"
        /\ IsSome(tagger_state)
        /\ Live = {}
        /\ ~ExitDrained

\* The errors a start() returns.
StartErrors == {"NotFound", "SpawnFailed", "OsError"}

\* C19: a start() that fails found the slot empty and leaves it empty, spawns
\* nothing and (before the exit handler) leaves no worker live; its caller
\* does not call again by itself: the setup hook goes on to the event loop
\* whatever the auto-start returned, a command returns to the UI.  A start
\* that spawns stores that process and returns Ok, and (before the exit
\* handler) it is the only process ever spawned, so the only one that can be
\* live.
C19_FailedStartLeavesNothing ==
    [][\A c \in Callers :
         /\ pc[c] # "s_ret" /\ pc'[c] = "s_ret" /\ res'[c] \in StartErrors =>
               /\ tagger_state = None /\ tagger_state' = None
               /\ procs' = procs
               /\ ~ExitDrained => Live' = {}
         /\ pc[c] = "s_ret" /\ pc'[c] # "s_ret" =>
               pc'[c] = IF c = Main THEN "running" ELSE "idle"
         /\ pc[c] = "s_store" /\ pc'[c] # "s_store" =>
               /\ pc'[c] = "s_ret" /\ res'[c] = "Ok"
               /\ tagger_state' = child[c]
               /\ ~ExitDrained => Len(procs') = 1 /\ Live' \subseteq {Unwrap(child[c])}]_vars

\* C19 witness: the auto-start and a start_tagger call have failed (the
\* latter is returning "not found", so the slot was empty when it looked);
\* a later start_tagger call has spawned, stored and returned Ok, and exactly
\* one worker is live.
C19_Witness ==
    \E t1, t2 \in Threads :
        /\ pc[Main] = "running"
        /\ pc[t1] = "s_ret" /\ res[t1] = "NotFound"
        /\ pc[t2] = "s_ret" /\ res[t2] = "Ok"
        /\ tagger_state = Some(1)
        /\ Live = {1}
        /\ Len(procs) = 1

\* C20: commands awaited one after the other:  navigate on an existing surface
\* never touches the registry; with a malformed url it returns InvalidUrl and
\* the surfaces are as before; when it returns Ok the url was well-formed and
\* the one change is that the surface it found, the same one, is loaded with
\* the (parsed) url; on any error the surfaces are as before.
C20_NavigateValidatesFirst ==
    [][\A t \in Threads :
         pc[t] = "n_load" /\ pc'[t] # "n_load" =>
            /\ pc'[t] = "ret"
            /\ store' = store
            /\ url'[t] = "not a url" => res'[t] = "InvalidUrl"
            /\ res'[t] # "Ok" => webviews_tbl' = webviews_tbl
            /\ res'[t] = "Ok" =>
                  /\ ParseUrl(url'[t]).ok
                  /\ \E w \in Labelled(webviews_tbl, EB) :
                        /\ w.id = Unwrap(webview[t])
                        /\ webviews_tbl' = (webviews_tbl \ {w}) \cup
                              {[w EXCEPT !.url = ParseUrl(url'[t]).val]}]_vars

\* C20 witness: a navigate has returned Ok: the surface it found is still the
\* one shown, now loaded with the parsed url, and the flag is true.
C20_Witness ==
    \E t \in Threads :
        /\ pc[t] = "ret" /\ op[t] = "navigate" /\ res[t] = "Ok"
        /\ url[t] = "https://a.example"
        /\ Flag(store, EB)
        /\ \E w \in Surfaces : w.id = Unwrap(webview[t]) /\ w.url = "https://a.example/"

\* The surface table with the surface behind handle h changed to v.
Moved(tbl, h, p) == {IF w.id = Unwrap(h) THEN [w EXCEPT !.pos = p] ELSE w : w \in tbl}
Sized(tbl, h, s) == {IF w.id = Unwrap(h) THEN [w EXCEPT !.size = s] ELSE w : w \in tbl}

\* C21: commands awaited one after the other:  resize on an existing surface
\* sets the position first and the size second.  If set_position fails the
\* command returns that error at once and position and size are as before;
\* if it succeeds only the position of that surface has changed and the size
\* comes next; if set_size then fails the command returns that error and the
\* position just applied stays; if it succeeds only the size has changed and
\* the command returns Ok.  No step destroys the surface or touches the
\* registry.
C21_ResizePositionThenSize ==
    [][\A t \in Threads :
         /\ pc[t] \in {"r_pos", "r_size"} /\ pc'[t] # pc[t] =>
               /\ store' = store
               /\ StillThere(webviews_tbl', webview[t])
               /\ Cardinality(webviews_tbl') = Cardinality(webviews_tbl)
         /\ pc[t] = "r_pos" /\ pc'[t] # "r_pos" =>
               \/ /\ pc'[t] = "ret" /\ res'[t] = "PositionFailed"
                  /\ webviews_tbl' = webviews_tbl
               \/ /\ pc'[t] = "r_size" /\ res'[t] = "none"
                  /\ \E p \in Coords : webviews_tbl' = Moved(webviews_tbl, webview[t], p)
         /\ pc[t] = "r_size" /\ pc'[t] # "r_size" =>
               /\ pc'[t] = "ret"
               /\ \/ /\ res'[t] = "SizeFailed"
                     /\ webviews_tbl' = webviews_tbl
                  \/ /\ res'[t] = "Ok"
                     /\ \E s \in Coords : webviews_tbl' = Sized(webviews_tbl, webview[t], s)]_vars

\* C21 witness: a resize has returned the size error after its position
\* update went through: the surface is still there and the flag is true.
C21_Witness ==
    \E t \in Threads :
        /\ pc[t] = "ret" /\ op[t] = "resize" /\ res[t] = "SizeFailed"
        /\ Flag(store, EB)
        /\ \E w \in Surfaces : w.id = Unwrap(webview[t]) /\ w.pos = 2 /\ w.size = 1

\* The overlay side of C15, under SpecOverlayFair: a task waiting for the
\* registry's mutex holds no mutex, and every overlay command invoked returns.
OverlayCommandsComplete ==
    /\ [](\A t \in Threads :
            pc[t] \in {"c_lock", "o_lock"} => t \notin tagger_lock \cup store_lock)
    /\ \A t \in Threads : (op[t] # "none") ~> (pc[t] = "ret")

=============================================================================
